---------------------------- MODULE Spec2Model ----------------------------
(***************************************************************************)
(* A model of the SQL tutorial repository: the users / orders / products / *)
(* order_products schema, the synchronous query library and its driver,    *)
(* the asynchronous demonstration and the bot's "start" handler.           *)
(*                                                                         *)
(* A nullable value is a sequence of length at most one: <<>> is SQL NULL  *)
(* (Python None) and <<v>> is the value v.                                 *)
(***************************************************************************)
EXTENDS Integers, Sequences, FiniteSets, Bags, TLC

VARIABLES
    committed,  \* the database as other sessions see it (committed rows, sequences)
    tx,         \* the database as the synchronous session sees it (its transaction)
    lastOp,     \* the last library call made on the synchronous session
    result,     \* what that call returned
    drv,        \* the synchronous driver main(): its position and locals
    inv,        \* the bot: one record per user_start invocation
    am,         \* the asynchronous main(): its position, session and locals
    now         \* the database clock behind func.now()

vars == <<committed, tx, lastOp, result, drv, inv, am, now>>

-----------------------------------------------------------------------------
(* Bounds *)

MaxUsers == 3
MaxOrders == 2
MaxProducts == 4
MaxBulk == 3
MaxInvocations == 2
MaxSenders == 2
MaxSchemaUsers == 2
MaxSchemaOrders == 1
MaxSchemaProducts == 1

-----------------------------------------------------------------------------
(* Values *)

Absent == <<>>
Some(v) == <<v>>
Get(o) == o[1]

UserIds == 1..MaxUsers
FullNames == {"John Doe", "Jane Doe"}
Titles == {"Product 1", "Product 2", "Product 3"}

\* SQL equality of two nullable values: never true when either side is NULL.
SqlEq(a, b) == a # Absent /\ b # Absent /\ a = b

Range(s) == {s[i] : i \in DOMAIN s}

-----------------------------------------------------------------------------
(* The schema: models.py *)

EmptyDb ==
    [users |-> {}, orders |-> {}, products |-> {}, order_products |-> {},
     order_seq |-> 0, product_seq |-> 0]

\* The rows of the four tables, without the sequences.
Rows(db) ==
    [users |-> db.users, orders |-> db.orders, products |-> db.products,
     order_products |-> db.order_products]

\* users.telegram_id is the primary key.
UserPkFree(db, row) ==
    \A u \in db.users : u.telegram_id # row.telegram_id

\* full_name and language_code are NOT NULL; username is nullable.  Every
\* caller passes a string as full_name, so only language_code can be NULL.
UserNotNullOk(row) ==
    row.language_code # Absent

\* referrer_id references users.telegram_id (checked at the end of the
\* statement, so a row may refer to itself).
UserFkOk(db, row) ==
    \/ row.referrer_id = Absent
    \/ \E u \in db.users \cup {row} : Some(u.telegram_id) = row.referrer_id

UserInsertOk(db, row) ==
    UserPkFree(db, row) /\ UserNotNullOk(row) /\ UserFkOk(db, row)

\* orders.user_id is NOT NULL and references users.telegram_id.
OrderFkOk(db, user_id) ==
    \E u \in db.users : u.telegram_id = user_id

\* order_products: composite primary key and both foreign keys.
OrderProductInsertOk(db, row) ==
    /\ \A op \in db.order_products :
          ~(op.order_id = row.order_id /\ op.product_id = row.product_id)
    /\ \E o \in db.orders : o.order_id = row.order_id
    /\ \E p \in db.products : p.product_id = row.product_id

\* A failed statement aborts the transaction: the session is rolled back to
\* the committed rows.  Sequences are not transactional and keep their value.
Rollback(db, base) ==
    [base EXCEPT !.order_seq = db.order_seq, !.product_seq = db.product_seq]

\* users.referrer_id, ondelete='SET NULL': the users that referred to the
\* deleted user keep their row and lose the reference.
ReferrersOnUserDelete(users, telegram_id) ==
    {IF u.referrer_id = Some(telegram_id) THEN [u EXCEPT !.referrer_id = Absent] ELSE u :
        u \in {x \in users : x.telegram_id # telegram_id}}

\* orders.user_id, ondelete='CASCADE': the deleted user's orders go.
OrdersOnUserDelete(orders, telegram_id) ==
    {o \in orders : o.user_id # telegram_id}

\* order_products.order_id, ondelete='CASCADE': the rows of deleted orders go.
OrderProductsOnOrderDelete(order_products, orders) ==
    {op \in order_products : \E o \in orders : o.order_id = op.order_id}

\* order_products.product_id with no rule applied: any product may go.
ProductDeleteAllowed_always(db, product_id) == TRUE

\* order_products.product_id, ondelete='RESTRICT': a product that a row
\* references cannot be deleted.
ProductDeleteAllowed(db, product_id) ==
    \A op \in db.order_products : op.product_id # product_id

\* DELETE FROM users WHERE telegram_id = ...
delete_user(db, telegram_id) ==
    LET orders == OrdersOnUserDelete(db.orders, telegram_id)
    IN  [ok |-> TRUE,
         db |-> [db EXCEPT
                   !.users = ReferrersOnUserDelete(@, telegram_id),
                   !.orders = orders,
                   !.order_products = OrderProductsOnOrderDelete(@, orders)]]

\* DELETE FROM orders WHERE order_id = ...
delete_order(db, order_id) ==
    LET orders == {o \in db.orders : o.order_id # order_id}
    IN  [ok |-> TRUE,
         db |-> [db EXCEPT
                   !.orders = orders,
                   !.order_products = OrderProductsOnOrderDelete(@, orders)]]

\* DELETE FROM products WHERE product_id = ...
delete_product(db, product_id) ==
    IF ProductDeleteAllowed(db, product_id)
    THEN [ok |-> TRUE,
          db |-> [db EXCEPT !.products = {q \in @ : q.product_id # product_id}]]
    ELSE [ok |-> FALSE, db |-> db]

-----------------------------------------------------------------------------
(* Joins, as the database evaluates them *)

InnerJoin(L, R, On(_, _)) ==
    {<<l, Some(r)>> : <<l, r>> \in {p \in L \X R : On(p[1], p[2])}}

LeftOuterJoin(L, R, On(_, _)) ==
    InnerJoin(L, R, On)
        \cup {<<l, Absent>> : l \in {x \in L : \A r \in R : ~On(x, r)}}

\* A column of the nullable side of an outer join.
FullNameOf(optrow) ==
    IF optrow = Absent THEN Absent ELSE Some(Get(optrow).full_name)

\* SELECT of the projected columns keeps one result row per joined pair.
Project(pairs, Row(_)) ==
    [r \in {Row(p) : p \in pairs} |-> Cardinality({p \in pairs : Row(p) = r})]

-----------------------------------------------------------------------------
(* The synchronous query library: Part8 main.py *)

NewUser(telegram_id, full_name, username, language_code, created_at, referrer_id) ==
    [telegram_id |-> telegram_id, full_name |-> full_name, username |-> username,
     language_code |-> language_code, created_at |-> created_at,
     referrer_id |-> referrer_id]

create_user(db, base, row) ==
    IF UserInsertOk(db, row)
    THEN [ok |-> TRUE, db |-> [db EXCEPT !.users = @ \cup {row}]]
    ELSE [ok |-> FALSE, db |-> Rollback(db, base)]

\* ON Referrer.telegram_id == User.referrer_id
ReferrerOfUser(user, referrer) == SqlEq(Some(referrer.telegram_id), user.referrer_id)
UserOfReferrer(referrer, user) == ReferrerOfUser(user, referrer)

\* As select_users_with_referrer, with isouter=True added by mistake.
select_users_with_referrer_outer(db) ==
    LET Row(p) == [user |-> Some(p[1].full_name), referrer |-> FullNameOf(p[2])]
    IN  Project(LeftOuterJoin(db.users, db.users, ReferrerOfUser), Row)

select_users_with_referrer(db) ==
    LET Row(p) == [user |-> Some(p[1].full_name), referrer |-> FullNameOf(p[2])]
    IN  Project(InnerJoin(db.users, db.users, ReferrerOfUser), Row)

\* As select_all_users_and_some_referrers, with isouter=True forgotten.
select_all_users_and_some_referrers_inner(db) ==
    LET Row(p) == [user |-> Some(p[1].full_name), referrer |-> FullNameOf(p[2])]
    IN  Project(InnerJoin(db.users, db.users, ReferrerOfUser), Row)

select_all_users_and_some_referrers(db) ==
    LET Row(p) == [user |-> Some(p[1].full_name), referrer |-> FullNameOf(p[2])]
    IN  Project(LeftOuterJoin(db.users, db.users, ReferrerOfUser), Row)

\* As select_some_users_and_all_referrers, with the join sides not swapped.
select_some_users_and_all_referrers_unswapped(db) ==
    LET Row(p) == [user |-> Some(p[1].full_name), referrer |-> FullNameOf(p[2])]
    IN  Project(LeftOuterJoin(db.users, db.users, ReferrerOfUser), Row)

select_some_users_and_all_referrers(db) ==
    LET Row(p) == [user |-> FullNameOf(p[2]), referrer |-> Some(p[1].full_name)]
    IN  Project(LeftOuterJoin(db.users, db.users, UserOfReferrer), Row)

\* INSERT INTO orders (user_id) VALUES (...) RETURNING order_id.  The serial
\* column draws its value before the foreign key is checked.
create_new_order_for_user(db, base, user_id) ==
    LET id == db.order_seq + 1
        drawn == [db EXCEPT !.order_seq = id]
        row == [order_id |-> id, user_id |-> user_id, created_at |-> now]
    IN  IF OrderFkOk(db, user_id)
        THEN [ok |-> TRUE, db |-> [drawn EXCEPT !.orders = @ \cup {row}],
              ret |-> Some(id)]
        ELSE [ok |-> FALSE, db |-> Rollback(drawn, base), ret |-> Absent]

\* Order JOIN User, the ON clause inferred from orders.user_id's foreign key.
OrderOfUser(order, user) == user.telegram_id = order.user_id

show_users_orders(db) ==
    LET Row(p) == [order_id |-> p[1].order_id, full_name |-> Get(p[2]).full_name]
    IN  Project(InnerJoin(db.orders, db.users, OrderOfUser), Row)

\* As ProductRows, the RETURNING rows handed back in reverse.
ProductRows_reversed(db, products_info) ==
    [i \in 1..Len(products_info) |->
        [product_id |-> db.product_seq + i,
         title |-> products_info[Len(products_info) + 1 - i].title,
         description |-> products_info[Len(products_info) + 1 - i].description,
         created_at |-> now]]

\* The rows of one multi-row INSERT INTO products: the VALUES list is
\* processed in order, each row drawing the next product_id.
ProductRows(db, products_info) ==
    [i \in 1..Len(products_info) |->
        [product_id |-> db.product_seq + i,
         title |-> products_info[i].title,
         description |-> products_info[i].description,
         created_at |-> now]]

\* INSERT INTO products ... VALUES (...), ... RETURNING product_id
create_new_products(db, products_info) ==
    LET rows == ProductRows(db, products_info)
    IN  [ok |-> TRUE,
         db |-> [db EXCEPT !.products = @ \cup Range(rows),
                           !.product_seq = @ + Len(products_info)],
         ret |-> [i \in 1..Len(products_info) |-> rows[i].product_id]]

\* One parameter set of the executemany: order_id is fixed, product_id and
\* quantity are bound from the dictionary.
OrderProductRow(order_id, product_data, i) ==
    [order_id |-> order_id, product_id |-> product_data[i].product_id,
     quantity |-> product_data[i].quantity]

\* The parameter sets are inserted one after the other; the first one that
\* violates a constraint fails the statement.
RECURSIVE InsertOrderProducts(_, _, _, _)
InsertOrderProducts(db, order_id, product_data, i) ==
    IF i > Len(product_data)
    THEN [ok |-> TRUE, db |-> db]
    ELSE LET row == OrderProductRow(order_id, product_data, i)
         IN  IF OrderProductInsertOk(db, row)
             THEN InsertOrderProducts(
                      [db EXCEPT !.order_products = @ \cup {row}],
                      order_id, product_data, i + 1)
             ELSE [ok |-> FALSE, db |-> db]

add_products_to_order(db, base, order_id, product_data) ==
    LET r == InsertOrderProducts(db, order_id, product_data, 1)
    IN  IF r.ok THEN r ELSE [ok |-> FALSE, db |-> Rollback(db, base)]

\* OrderProduct JOIN Product JOIN Order JOIN User
UsersProductsJoin(db) ==
    {q \in db.order_products \X db.products \X db.orders \X db.users :
        /\ q[2].product_id = q[1].product_id
        /\ q[3].order_id = q[1].order_id
        /\ q[4].telegram_id = q[3].user_id}

show_all_users_products(db) ==
    LET Row(q) == [order_id |-> q[3].order_id, title |-> q[2].title,
                   full_name |-> q[4].full_name]
    IN  Project(UsersProductsJoin(db), Row)

-----------------------------------------------------------------------------
(* Idle values of the components a specification does not run *)

DrvIdle == [pc |-> "idle"]
AmIdle == [pc |-> "idle"]
InvIdle == [i \in 1..MaxInvocations |-> [pc |-> "idle"]]

-----------------------------------------------------------------------------
(* SpecReferrals: the referral queries called on a session in any order *)

ReferrerArgs == {Absent} \cup {Some(i) : i \in UserIds}

InitReferrals ==
    /\ committed = EmptyDb
    /\ tx = EmptyDb
    /\ lastOp = "none"
    /\ result = EmptyBag
    /\ drv = DrvIdle
    /\ inv = InvIdle
    /\ am = AmIdle
    /\ now = 0

CallCreateUser ==
    \E id \in UserIds, name \in FullNames, ref \in ReferrerArgs :
        LET r == create_user(tx, committed,
                     NewUser(id, name, Some("johnny"), Some("en"), 20200101, ref))
        IN  /\ tx' = r.db
            /\ lastOp' = IF r.ok THEN "create_user" ELSE "IntegrityError"
            /\ result' = EmptyBag
            /\ UNCHANGED <<committed, drv, inv, am, now>>

CallSelectUsersWithReferrer ==
    /\ lastOp' = "select_users_with_referrer"
    /\ result' = select_users_with_referrer(tx)
    /\ UNCHANGED <<committed, tx, drv, inv, am, now>>

CallSelectAllUsersAndSomeReferrers ==
    /\ lastOp' = "select_all_users_and_some_referrers"
    /\ result' = select_all_users_and_some_referrers(tx)
    /\ UNCHANGED <<committed, tx, drv, inv, am, now>>

CallSelectSomeUsersAndAllReferrers ==
    /\ lastOp' = "select_some_users_and_all_referrers"
    /\ result' = select_some_users_and_all_referrers(tx)
    /\ UNCHANGED <<committed, tx, drv, inv, am, now>>

NextReferrals ==
    \/ CallCreateUser
    \/ CallSelectUsersWithReferrer
    \/ CallSelectAllUsersAndSomeReferrers
    \/ CallSelectSomeUsersAndAllReferrers

SpecReferrals == InitReferrals /\ [][NextReferrals]_vars

(* The referral queries: properties *)
(* The referral queries: claims *)

OptNames == {Absent} \cup {Some(n) : n \in FullNames}
ReferralRows == [user : OptNames, referrer : OptNames]

\* The users that point to referrer r.
PointingTo(db, r) == {u \in db.users : u.referrer_id = Some(r.telegram_id)}

\* The users table of the demonstration: user 1 John Doe without referrer,
\* user 2 Jane Doe referred by user 1.
DemoUsers(db) ==
    {<<u.telegram_id, u.full_name, u.referrer_id>> : u \in db.users}
        = {<<1, "John Doe", Absent>>, <<2, "Jane Doe", Some(1)>>}

\* C4: select_some_users_and_all_referrers returns, for every users row taken
\* as referrer, one row with the user column absent when no user points to
\* it, and otherwise one row per user pointing to it with that user's full
\* name; it returns nothing else.
C4_RightJoin ==
    lastOp = "select_some_users_and_all_referrers" =>
        /\ \A r \in tx.users :
              \E row \in BagToSet(result) : row.referrer = Some(r.full_name)
        /\ \A row \in ReferralRows :
              CopiesIn(row, result) =
                  Cardinality({r \in tx.users :
                      /\ PointingTo(tx, r) = {}
                      /\ row = [user |-> Absent, referrer |-> Some(r.full_name)]})
                  + Cardinality({p \in tx.users \X tx.users :
                      /\ p[2] \in PointingTo(tx, p[1])
                      /\ row = [user |-> Some(p[2].full_name),
                                referrer |-> Some(p[1].full_name)]})
        /\ BagToSet(result) \subseteq ReferralRows

\* C4 witness: a referrer nobody points to and a referrer two users point to.
C4_Witness ==
    /\ lastOp = "select_some_users_and_all_referrers"
    /\ \E r \in tx.users : PointingTo(tx, r) = {}
    /\ \E r \in tx.users : Cardinality(PointingTo(tx, r)) = 2
    /\ \E row \in BagToSet(result) : row.user = Absent

\* C5: select_all_users_and_some_referrers returns exactly one row per user
\* row; the referrer column is absent exactly for the users without
\* referrer_id and is otherwise the full name of the referenced user; the
\* demonstration's two users give two rows.
C5_LeftJoin ==
    lastOp = "select_all_users_and_some_referrers" =>
        /\ BagCardinality(result) = Cardinality(tx.users)
        /\ \A row \in ReferralRows :
              CopiesIn(row, result) =
                  Cardinality({u \in tx.users :
                      /\ row.user = Some(u.full_name)
                      /\ (u.referrer_id = Absent) = (row.referrer = Absent)
                      /\ u.referrer_id # Absent =>
                            \E r \in tx.users :
                                /\ r.telegram_id = Get(u.referrer_id)
                                /\ row.referrer = Some(r.full_name)})
        /\ BagToSet(result) \subseteq ReferralRows
        /\ DemoUsers(tx) =>
              result = SetToBag({[user |-> Some("John Doe"), referrer |-> Absent],
                                 [user |-> Some("Jane Doe"),
                                  referrer |-> Some("John Doe")]})

\* C5 witness: the query has run on the demonstration's two users.
C5_Witness ==
    /\ lastOp = "select_all_users_and_some_referrers"
    /\ DemoUsers(tx)
    /\ BagCardinality(result) = 2

\* C6: select_users_with_referrer returns exactly the pairs (user full name,
\* referrer full name) of the user rows whose referrer_id is the telegram_id
\* of an existing user row, so a user without referrer_id contributes no row;
\* the demonstration's two users give the one row (Jane Doe, John Doe).
C6_InnerJoin ==
    lastOp = "select_users_with_referrer" =>
        /\ \A row \in ReferralRows :
              CopiesIn(row, result) =
                  Cardinality({u \in tx.users :
                      /\ u.referrer_id # Absent
                      /\ row.user = Some(u.full_name)
                      /\ \E r \in tx.users :
                            /\ r.telegram_id = Get(u.referrer_id)
                            /\ row.referrer = Some(r.full_name)})
        /\ BagToSet(result) \subseteq ReferralRows
        /\ BagCardinality(result) =
              Cardinality({u \in tx.users : u.referrer_id # Absent})
        /\ DemoUsers(tx) =>
              result = SetToBag({[user |-> Some("Jane Doe"),
                                  referrer |-> Some("John Doe")]})

\* C6 witness: the query has run on the demonstration's two users.
C6_Witness ==
    /\ lastOp = "select_users_with_referrer"
    /\ DemoUsers(tx)
    /\ BagCardinality(result) = 1

-----------------------------------------------------------------------------
(* SpecProducts: a caller that creates orders and products, attaches the      *)
(* products it just created to the order it just created and lists the join, *)
(* as main() does, with any products_info.  An IntegrityError is not caught: *)
(* it ends the caller.                                                       *)

ProductInfo(t) == [title |-> t, description |-> "Description"]

\* The k-th record of a products_info is titled like the demonstration's
\* k-th product or repeats the first title.
TitleAt(k) ==
    IF k = 1 THEN {"Product 1"}
    ELSE IF k = 2 THEN {"Product 1", "Product 2"}
    ELSE {"Product 1", "Product 3"}

ProductsInfos ==
    UNION {{info \in [1..n -> {ProductInfo(t) : t \in Titles}] :
               \A k \in 1..n : info[k].title \in TitleAt(k)} : n \in 1..MaxBulk}

John == NewUser(1, "John Doe", Some("johnny"), Some("en"), 20200101, Absent)
Jane == NewUser(2, "Jane Doe", Some("jane"), Some("en"), 20200102, Some(1))

TwoUsersDb == [EmptyDb EXCEPT !.users = {John, Jane}]

CallerStart ==
    [pc |-> "run", user_id |-> Absent, order_id |-> Absent, product_ids |-> <<>>,
     products_info |-> <<>>, before |-> {}, added |-> <<>>]

InitProducts ==
    /\ committed = TwoUsersDb
    /\ tx = TwoUsersDb
    /\ lastOp = "none"
    /\ result = EmptyBag
    /\ drv = CallerStart
    /\ inv = InvIdle
    /\ am = AmIdle
    /\ now = 0

\* product_data=[dict(product_id=product_id, quantity=1) for product_id in product_ids]
ProductData(product_ids) ==
    [i \in 1..Len(product_ids) |-> [product_id |-> product_ids[i], quantity |-> 1]]

CallCreateNewOrderForUser ==
    /\ drv.pc = "run"
    /\ tx.order_seq < MaxOrders
    /\ \E user_id \in UserIds :
        LET r == create_new_order_for_user(tx, committed, user_id)
        IN  /\ tx' = r.db
            /\ lastOp' = IF r.ok THEN "create_new_order_for_user" ELSE "IntegrityError"
            /\ result' = r.ret
            /\ drv' = IF r.ok
                      THEN [drv EXCEPT !.user_id = Some(user_id), !.order_id = r.ret,
                                       !.added = <<>>]
                      ELSE [drv EXCEPT !.pc = "failed"]
    /\ UNCHANGED <<committed, inv, am, now>>

CallCreateNewProducts ==
    /\ drv.pc = "run"
    /\ \E products_info \in ProductsInfos :
        /\ tx.product_seq + Len(products_info) <= MaxProducts
        /\ LET r == create_new_products(tx, products_info)
           IN  /\ tx' = r.db
               /\ lastOp' = "create_new_products"
               /\ result' = r.ret
               /\ drv' = [drv EXCEPT !.product_ids = r.ret,
                                     !.products_info = products_info,
                                     !.before = {q.product_id : q \in tx.products}]
    /\ UNCHANGED <<committed, inv, am, now>>

CallAddProductsToOrder ==
    /\ drv.pc = "run"
    /\ drv.order_id # Absent
    /\ drv.product_ids # <<>>
    /\ LET r == add_products_to_order(tx, committed, Get(drv.order_id),
                                      ProductData(drv.product_ids))
       IN  /\ tx' = r.db
           /\ lastOp' = IF r.ok THEN "add_products_to_order" ELSE "IntegrityError"
           /\ drv' = IF r.ok
                     THEN [drv EXCEPT !.added = Append(@, ProductData(drv.product_ids))]
                     ELSE [drv EXCEPT !.pc = "failed"]
    /\ result' = EmptyBag
    /\ UNCHANGED <<committed, inv, am, now>>

CallShowAllUsersProducts ==
    /\ drv.pc = "run"
    /\ lastOp' = "show_all_users_products"
    /\ result' = show_all_users_products(tx)
    /\ UNCHANGED <<committed, tx, drv, inv, am, now>>

NextProducts ==
    \/ CallCreateNewOrderForUser
    \/ CallCreateNewProducts
    \/ CallAddProductsToOrder
    \/ CallShowAllUsersProducts

SpecProducts == InitProducts /\ [][NextProducts]_vars

\* The rows of a result that carry the given order identifier.
RowsOfOrder(rows, order_id) ==
    [r \in {x \in BagToSet(rows) : x.order_id = order_id} |-> rows[r]]

\* The full name of the user with the given identifier.
FullNameOfId(db, id) == (CHOOSE u \in db.users : u.telegram_id = id).full_name

\* C7: create_new_products on n records returns n new, pairwise distinct
\* product identifiers, the i-th being the identifier of the row that holds
\* the i-th record; once exactly these products are attached to the order
\* made by create_new_order_for_user, show_all_users_products has exactly n
\* rows for that order, one per product title, all with that order's
\* identifier and its user's full name.
C7_BulkProducts ==
    /\ lastOp = "create_new_products" =>
          /\ result = drv.product_ids
          /\ Len(drv.product_ids) = Len(drv.products_info)
          /\ \A i, j \in DOMAIN drv.product_ids :
                i # j => drv.product_ids[i] # drv.product_ids[j]
          /\ \A i \in DOMAIN drv.product_ids :
                /\ drv.product_ids[i] \notin drv.before
                /\ \E q \in tx.products :
                      /\ q.product_id = drv.product_ids[i]
                      /\ q.title = drv.products_info[i].title
                      /\ q.description = drv.products_info[i].description
                /\ Cardinality({q \in tx.products :
                        q.product_id = drv.product_ids[i]}) = 1
    /\ (/\ lastOp = "show_all_users_products"
        /\ drv.added = <<ProductData(drv.product_ids)>>) =>
          LET n == Len(drv.products_info)
              mine == RowsOfOrder(result, Get(drv.order_id))
              Expected(i) == [order_id |-> Get(drv.order_id),
                              title |-> drv.products_info[i].title,
                              full_name |-> FullNameOfId(tx, Get(drv.user_id))]
          IN  /\ BagCardinality(mine) = n
              /\ \A i \in 1..n :
                    CopiesIn(Expected(i), mine) =
                        Cardinality({j \in 1..n : Expected(j) = Expected(i)})

\* C7 witness: three products with three titles, attached to one order and
\* listed.
C7_Witness ==
    /\ lastOp = "show_all_users_products"
    /\ drv.added = <<ProductData(drv.product_ids)>>
    /\ Len(drv.product_ids) = 3
    /\ {drv.products_info[i].title : i \in 1..3} = Titles
    /\ BagCardinality(RowsOfOrder(result, Get(drv.order_id))) = 3
    /\ BagCardinality(result) > 3

-----------------------------------------------------------------------------
(* SpecSchema: single statements, each its own transaction, against the      *)
(* tables the models declare.  No component deletes rows; the deletes are    *)
(* the database applying the declared ondelete rules.                        *)

SchemaUserIds == 1..MaxSchemaUsers
SchemaOrderIds == 1..MaxSchemaOrders
SchemaProductIds == 1..MaxSchemaProducts

\* The dependent rows a statement touched.
NoRows == [orders |-> 0, order_products |-> 0, referrers |-> 0]

InitSchema ==
    /\ committed = EmptyDb
    /\ tx = EmptyDb
    /\ lastOp = "none"
    /\ result = NoRows
    /\ drv = DrvIdle
    /\ inv = InvIdle
    /\ am = AmIdle
    /\ now = 0

StmtInsertUser ==
    \E id \in SchemaUserIds, ref \in {Absent, Some(1)} :
        LET r == create_user(committed, committed,
                     NewUser(id, "John Doe", Absent, Some("en"), now, ref))
        IN  /\ committed' = r.db
            /\ lastOp' = IF r.ok THEN "insert_user" ELSE "IntegrityError"
            /\ result' = NoRows
            /\ UNCHANGED <<tx, drv, inv, am, now>>

StmtInsertOrder ==
    /\ committed.order_seq < MaxSchemaOrders
    /\ \E user_id \in SchemaUserIds :
        LET r == create_new_order_for_user(committed, committed, user_id)
        IN  /\ committed' = r.db
            /\ lastOp' = IF r.ok THEN "insert_order" ELSE "IntegrityError"
            /\ result' = NoRows
    /\ UNCHANGED <<tx, drv, inv, am, now>>

StmtInsertProduct ==
    /\ committed.product_seq < MaxSchemaProducts
    /\ LET r == create_new_products(committed, <<ProductInfo("Product 1")>>)
       IN  /\ committed' = r.db
           /\ lastOp' = "insert_product"
           /\ result' = NoRows
    /\ UNCHANGED <<tx, drv, inv, am, now>>

StmtInsertOrderProduct ==
    \E order_id \in SchemaOrderIds, product_id \in SchemaProductIds :
        LET r == add_products_to_order(committed, committed, order_id,
                     <<[product_id |-> product_id, quantity |-> 1]>>)
        IN  /\ committed' = r.db
            /\ lastOp' = IF r.ok THEN "insert_order_product" ELSE "IntegrityError"
            /\ result' = NoRows
            /\ UNCHANGED <<tx, drv, inv, am, now>>

StmtDeleteUser ==
    \E id \in SchemaUserIds :
        LET r == delete_user(committed, id)
        IN  /\ committed' = r.db
            /\ lastOp' = "delete_user"
            /\ result' = [orders |-> Cardinality(committed.orders \ r.db.orders),
                          order_products |->
                              Cardinality(committed.order_products
                                              \ r.db.order_products),
                          referrers |-> Cardinality(r.db.users \ committed.users)]
            /\ UNCHANGED <<tx, drv, inv, am, now>>

StmtDeleteOrder ==
    \E id \in SchemaOrderIds :
        LET r == delete_order(committed, id)
        IN  /\ committed' = r.db
            /\ lastOp' = "delete_order"
            /\ result' = NoRows
            /\ UNCHANGED <<tx, drv, inv, am, now>>

StmtDeleteProduct ==
    \E id \in SchemaProductIds :
        LET r == delete_product(committed, id)
        IN  /\ committed' = r.db
            /\ lastOp' = IF r.ok THEN "delete_product" ELSE "IntegrityError"
            /\ result' = NoRows
            /\ UNCHANGED <<tx, drv, inv, am, now>>

NextSchema ==
    \/ StmtInsertUser
    \/ StmtInsertOrder
    \/ StmtInsertProduct
    \/ StmtInsertOrderProduct
    \/ StmtDeleteUser
    \/ StmtDeleteOrder
    \/ StmtDeleteProduct

SpecSchema == InitSchema /\ [][NextSchema]_vars

\* Every foreign key value references an existing row.
RefIntegrity(db) ==
    /\ \A o \in db.orders : \E u \in db.users : u.telegram_id = o.user_id
    /\ \A op \in db.order_products :
          /\ \E o \in db.orders : o.order_id = op.order_id
          /\ \E q \in db.products : q.product_id = op.product_id
    /\ \A u \in db.users :
          u.referrer_id # Absent =>
              \E r \in db.users : r.telegram_id = Get(u.referrer_id)

\* A step that removes a user row removes that user's orders and their
\* order_products rows and clears referrer_id on the users that referred to it.
DeleteUserCascades ==
    \A id \in SchemaUserIds :
        (/\ \E u \in committed.users : u.telegram_id = id
         /\ \A u \in committed'.users : u.telegram_id # id) =>
            /\ \A o \in committed.orders :
                  o.user_id = id =>
                      /\ \A o2 \in committed'.orders : o2.order_id # o.order_id
                      /\ \A op \in committed'.order_products :
                            op.order_id # o.order_id
            /\ \A u \in committed.users :
                  (u.telegram_id # id /\ u.referrer_id = Some(id)) =>
                      [u EXCEPT !.referrer_id = Absent] \in committed'.users
            /\ \A u \in committed'.users : u.referrer_id # Some(id)

\* No step removes a product that an order_products row references, and a
\* rejected statement changes no table.
DeleteProductRestricted ==
    /\ \A q \in committed.products :
          (\E op \in committed.order_products : op.product_id = q.product_id) =>
              q \in committed'.products
    /\ lastOp' = "IntegrityError" => Rows(committed') = Rows(committed)

\* C8: under the declared schema a user's deletion cascades to the user's
\* orders and their order_products rows and clears the referrer_id that
\* pointed to it, the deletion of a referenced product is rejected without
\* effect, and so every foreign key value always references an existing row.
C8_CascadeRestrict ==
    /\ []RefIntegrity(committed)
    /\ [][DeleteUserCascades /\ DeleteProductRestricted]_vars

\* C8 witness: a user was deleted, and with it an order, an order_products
\* row and another user's reference.
C8_Witness ==
    /\ lastOp = "delete_user"
    /\ result.orders > 0
    /\ result.order_products > 0
    /\ result.referrers > 0

-----------------------------------------------------------------------------
(* SpecSync: the synchronous driver main(), run once against a database     *)
(* that may already hold rows.  Every statement runs in the one session the *)
(* with block opens; an exception leaves the block and ends the run.        *)

\* Rows another run may have committed before this one starts.
OldUser(id) == NewUser(id, "Old User", Absent, Some("en"), 0, Absent)

InitialDbs ==
    {[EmptyDb EXCEPT !.users = {OldUser(id) : id \in U},
                     !.orders = {[order_id |-> k, user_id |-> u, created_at |-> 0] :
                                    u \in {x \in U \cap O : k > 0}},
                     !.order_seq = k, !.product_seq = j] :
        U \in SUBSET UserIds, O \in {{id} : id \in UserIds} \cup {{}},
        k \in 0..MaxOrders, j \in 0..MaxProducts}

DriverStart ==
    [pc |-> "create_user_1", order_id |-> Absent, product_ids |-> <<>>,
     users_with_referrer |-> EmptyBag, all_users_and_referrers |-> EmptyBag,
     some_users_and_all_referrers |-> EmptyBag, users_orders |-> EmptyBag,
     users_products |-> EmptyBag]

InitSync ==
    /\ committed \in InitialDbs
    /\ tx = committed
    /\ lastOp = "none"
    /\ result = EmptyBag
    /\ drv = DriverStart
    /\ inv = InvIdle
    /\ am = AmIdle
    /\ now = 1

\* As SessionExit, had the block ended with session.commit().
SessionExit_commit(db, base) ==
    [committed |-> db, tx |-> db]

\* Leaving "with session_pool() as session" closes the session; the
\* transaction it holds was never committed and is rolled back.
SessionExit(db, base) ==
    [committed |-> base, tx |-> Rollback(db, base)]

\* A statement's outcome: on an exception the with block is left.
DriverAfter(r, next) ==
    /\ lastOp' = IF r.ok THEN drv.pc ELSE "IntegrityError"
    /\ tx' = IF r.ok THEN r.db ELSE SessionExit(r.db, committed).tx
    /\ committed' = IF r.ok THEN committed ELSE SessionExit(r.db, committed).committed
    /\ drv' = IF r.ok THEN next ELSE [drv EXCEPT !.pc = "failed"]

DrvCreateUser1 ==
    /\ drv.pc = "create_user_1"
    /\ LET r == create_user(tx, committed, John)
       IN  DriverAfter(r, [drv EXCEPT !.pc = "create_user_2"])
    /\ UNCHANGED <<result, inv, am, now>>

DrvCreateUser2 ==
    /\ drv.pc = "create_user_2"
    /\ LET r == create_user(tx, committed, Jane)
       IN  DriverAfter(r, [drv EXCEPT !.pc = "select_users_with_referrer"])
    /\ UNCHANGED <<result, inv, am, now>>

DrvSelectUsersWithReferrer ==
    /\ drv.pc = "select_users_with_referrer"
    /\ drv' = [drv EXCEPT !.pc = "select_all_users_and_some_referrers",
                          !.users_with_referrer = select_users_with_referrer(tx)]
    /\ lastOp' = drv.pc
    /\ UNCHANGED <<committed, tx, result, inv, am, now>>

DrvSelectAllUsersAndSomeReferrers ==
    /\ drv.pc = "select_all_users_and_some_referrers"
    /\ drv' = [drv EXCEPT !.pc = "select_some_users_and_all_referrers",
                          !.all_users_and_referrers =
                              select_all_users_and_some_referrers(tx)]
    /\ lastOp' = drv.pc
    /\ UNCHANGED <<committed, tx, result, inv, am, now>>

DrvSelectSomeUsersAndAllReferrers ==
    /\ drv.pc = "select_some_users_and_all_referrers"
    /\ drv' = [drv EXCEPT !.pc = "create_new_order_for_user",
                          !.some_users_and_all_referrers =
                              select_some_users_and_all_referrers(tx)]
    /\ lastOp' = drv.pc
    /\ UNCHANGED <<committed, tx, result, inv, am, now>>

DrvCreateNewOrderForUser ==
    /\ drv.pc = "create_new_order_for_user"
    /\ LET r == create_new_order_for_user(tx, committed, 1)
       IN  DriverAfter(r, [drv EXCEPT !.pc = "show_users_orders", !.order_id = r.ret])
    /\ UNCHANGED <<result, inv, am, now>>

DrvShowUsersOrders ==
    /\ drv.pc = "show_users_orders"
    /\ drv' = [drv EXCEPT !.pc = "create_new_products",
                          !.users_orders = show_users_orders(tx)]
    /\ lastOp' = drv.pc
    /\ UNCHANGED <<committed, tx, result, inv, am, now>>

DemoProductsInfo ==
    <<[title |-> "Product 1", description |-> "Description 1"],
      [title |-> "Product 2", description |-> "Description 2"],
      [title |-> "Product 3", description |-> "Description 3"]>>

DrvCreateNewProducts ==
    /\ drv.pc = "create_new_products"
    /\ LET r == create_new_products(tx, DemoProductsInfo)
       IN  DriverAfter(r, [drv EXCEPT !.pc = "add_products_to_order", !.product_ids = r.ret])
    /\ UNCHANGED <<result, inv, am, now>>

DrvAddProductsToOrder ==
    /\ drv.pc = "add_products_to_order"
    /\ LET r == add_products_to_order(tx, committed, Get(drv.order_id),
                                      ProductData(drv.product_ids))
       IN  DriverAfter(r, [drv EXCEPT !.pc = "show_all_users_products"])
    /\ UNCHANGED <<result, inv, am, now>>

DrvShowAllUsersProducts ==
    /\ drv.pc = "show_all_users_products"
    /\ drv' = [drv EXCEPT !.pc = "exit",
                          !.users_products = show_all_users_products(tx)]
    /\ lastOp' = drv.pc
    /\ UNCHANGED <<committed, tx, result, inv, am, now>>

DrvExit ==
    /\ drv.pc = "exit"
    /\ committed' = SessionExit(tx, committed).committed
    /\ tx' = SessionExit(tx, committed).tx
    /\ drv' = [drv EXCEPT !.pc = "done"]
    /\ lastOp' = "exit"
    /\ UNCHANGED <<result, inv, am, now>>

NextSync ==
    \/ DrvCreateUser1
    \/ DrvCreateUser2
    \/ DrvSelectUsersWithReferrer
    \/ DrvSelectAllUsersAndSomeReferrers
    \/ DrvSelectSomeUsersAndAllReferrers
    \/ DrvCreateNewOrderForUser
    \/ DrvShowUsersOrders
    \/ DrvCreateNewProducts
    \/ DrvAddProductsToOrder
    \/ DrvShowAllUsersProducts
    \/ DrvExit

SpecSync == InitSync /\ [][NextSync]_vars

DriverPast(pcs) == drv.pc \notin pcs \cup {"failed"}

\* What the driver's reads returned: the rows the same session wrote before.
ReadsSeeOwnWrites ==
    /\ DriverPast({"create_user_1", "create_user_2", "select_users_with_referrer"}) =>
          BagIn([user |-> Some("Jane Doe"), referrer |-> Some("John Doe")],
                drv.users_with_referrer)
    /\ drv.pc \in {"create_new_products", "add_products_to_order",
                    "show_all_users_products", "exit", "done"} =>
          BagIn([order_id |-> Get(drv.order_id), full_name |-> "John Doe"],
                drv.users_orders)
    /\ drv.pc \in {"exit", "done"} =>
          \A i \in 1..3 :
              BagIn([order_id |-> Get(drv.order_id),
                     title |-> DemoProductsInfo[i].title,
                     full_name |-> "John Doe"], drv.users_products)

\* C10: the driver never commits: no step changes the committed database,
\* its reads see what its own session wrote, and once the session is closed
\* (at the end of the block or by an exception) the session's rows are the
\* committed rows again, none of the driver's inserts among them.
C10_NothingCommitted ==
    /\ [][committed' = committed]_vars
    /\ [](ReadsSeeOwnWrites)
    /\ [](drv.pc \in {"done", "failed"} => Rows(tx) = Rows(committed))
    /\ [](drv.pc = "done" =>
            /\ John \notin committed.users /\ Jane \notin committed.users
            /\ \A o \in committed.orders : Some(o.order_id) # drv.order_id
            /\ committed.products = {}
            /\ committed.order_products = {})

\* C10 witness: the driver ran to the end, had read its three products, and
\* the session no longer shows them.
C10_Witness ==
    /\ drv.pc = "done"
    /\ BagCardinality(RowsOfOrder(drv.users_products, Get(drv.order_id))) = 3
    /\ tx.products = {}
    /\ committed.users # {}

-----------------------------------------------------------------------------
(* SpecAsync: the asynchronous main(), one task.  Each await is two steps,  *)
(* the operation being issued and its completion, and an awaited database   *)
(* operation may raise instead of returning.                                *)

AsyncDbs ==
    {[TwoUsersDb EXCEPT
        !.orders = {[order_id |-> k, user_id |-> owner[k], created_at |-> 0] : k \in S},
        !.order_seq = MaxOrders] :
        S \in SUBSET (1..MaxOrders), owner \in [1..MaxOrders -> {1, 2}]}

\* The orders in which the database may hand back the rows of a result.
Orderings(S) ==
    {f \in [1..Cardinality(S) -> S] : \A a, b \in DOMAIN f : a # b => f[a] # f[b]}

AsyncStart ==
    [pc |-> "start", session |-> "none", in_flight |-> 0, result |-> <<>>,
     orders |-> <<>>, printed |-> <<>>, trace |-> <<>>, raised |-> FALSE]

InitAsync ==
    /\ committed \in AsyncDbs
    /\ tx = EmptyDb
    /\ lastOp = "none"
    /\ result = EmptyBag
    /\ drv = DrvIdle
    /\ inv = InvIdle
    /\ am = AsyncStart
    /\ now = 0

\* As AfterCommit, had the for loop been indented into the async with block.
AfterCommit_print_inside == "print"

\* Where main() continues once "await session.commit()" has returned: the
\* async with block ends, the for loop follows it.
AfterCommit == "exit"

\* async with session_pool() as session
AmOpenSession ==
    /\ am.pc = "start"
    /\ am' = [am EXCEPT !.pc = "execute", !.session = "open",
                        !.trace = Append(@, "open")]
    /\ UNCHANGED <<committed, tx, lastOp, result, drv, inv, now>>

\* result = await session.execute(user_orders): issued
AmExecuteIssue ==
    /\ am.pc = "execute"
    /\ am' = [am EXCEPT !.pc = "execute_wait", !.in_flight = @ + 1,
                        !.trace = Append(@, "execute")]
    /\ UNCHANGED <<committed, tx, lastOp, result, drv, inv, now>>

AmExecuteReturn ==
    /\ am.pc = "execute_wait"
    /\ \E rows \in Orderings(BagToSet(show_users_orders(committed))) :
          am' = [am EXCEPT !.pc = "all", !.in_flight = @ - 1, !.result = rows]
    /\ UNCHANGED <<committed, tx, lastOp, result, drv, inv, now>>

AmExecuteRaise ==
    /\ am.pc = "execute_wait"
    /\ am' = [am EXCEPT !.pc = "exit", !.in_flight = @ - 1, !.raised = TRUE]
    /\ UNCHANGED <<committed, tx, lastOp, result, drv, inv, now>>

\* orders = result.all()
AmAll ==
    /\ am.pc = "all"
    /\ am' = [am EXCEPT !.pc = "commit", !.orders = am.result,
                        !.trace = Append(@, "all")]
    /\ UNCHANGED <<committed, tx, lastOp, result, drv, inv, now>>

\* await session.commit(): issued
AmCommitIssue ==
    /\ am.pc = "commit"
    /\ am' = [am EXCEPT !.pc = "commit_wait", !.in_flight = @ + 1,
                        !.trace = Append(@, "commit")]
    /\ UNCHANGED <<committed, tx, lastOp, result, drv, inv, now>>

AmCommitReturn ==
    /\ am.pc = "commit_wait"
    /\ am' = [am EXCEPT !.pc = AfterCommit, !.in_flight = @ - 1]
    /\ UNCHANGED <<committed, tx, lastOp, result, drv, inv, now>>

AmCommitRaise ==
    /\ am.pc = "commit_wait"
    /\ am' = [am EXCEPT !.pc = "exit", !.in_flight = @ - 1, !.raised = TRUE]
    /\ UNCHANGED <<committed, tx, lastOp, result, drv, inv, now>>

\* Leaving the async with block, normally or by an exception: the session's
\* close() is awaited.
AmExitIssue ==
    /\ am.pc = "exit"
    /\ am' = [am EXCEPT !.pc = "exit_wait", !.in_flight = @ + 1]
    /\ UNCHANGED <<committed, tx, lastOp, result, drv, inv, now>>

AmExitReturn ==
    /\ am.pc = "exit_wait"
    /\ am' = [am EXCEPT !.pc = IF am.raised THEN "failed" ELSE "print",
                        !.in_flight = @ - 1, !.session = "closed",
                        !.trace = Append(@, "close")]
    /\ UNCHANGED <<committed, tx, lastOp, result, drv, inv, now>>

\* for order in orders: print(order.full_name, order.order_id)
AmPrint ==
    /\ am.pc = "print"
    /\ Len(am.printed) < Len(am.orders)
    /\ LET order == am.orders[Len(am.printed) + 1]
       IN  am' = [am EXCEPT !.printed = Append(@, <<order.full_name, order.order_id>>),
                           !.trace = Append(@, "print")]
    /\ UNCHANGED <<committed, tx, lastOp, result, drv, inv, now>>

AmReturn ==
    /\ am.pc = "print"
    /\ Len(am.printed) = Len(am.orders)
    /\ am' = [am EXCEPT !.pc = "done"]
    /\ UNCHANGED <<committed, tx, lastOp, result, drv, inv, now>>

NextAsync ==
    \/ AmOpenSession
    \/ AmExecuteIssue
    \/ AmExecuteReturn
    \/ AmExecuteRaise
    \/ AmAll
    \/ AmCommitIssue
    \/ AmCommitReturn
    \/ AmCommitRaise
    \/ AmExitIssue
    \/ AmExitReturn
    \/ AmPrint
    \/ AmReturn

SpecAsync == InitAsync /\ [][NextAsync]_vars

IsPrefix(s, t) == Len(s) <= Len(t) /\ \A k \in DOMAIN s : s[k] = t[k]

NotPrint(e) == e # "print"

\* C9: the steps of the asynchronous main happen in the order open, execute,
\* all, commit, close, print (an exception skipping to close); no row is
\* printed before the session is closed; at most one database operation is
\* in flight; whenever the block has been left the session is closed; and
\* after an exception nothing is printed.
C9_AsyncOrder ==
    /\ IsPrefix(SelectSeq(am.trace, NotPrint),
                IF am.raised /\ "all" \notin Range(am.trace)
                THEN <<"open", "execute", "close">>
                ELSE <<"open", "execute", "all", "commit", "close">>)
    /\ \A k \in DOMAIN am.trace :
          am.trace[k] = "print" =>
              \E j \in 1..(k - 1) : am.trace[j] = "close"
    /\ am.printed # <<>> => am.session = "closed"
    /\ am.in_flight <= 1
    /\ am.pc \in {"print", "done", "failed"} => am.session = "closed"
    /\ am.pc \in {"done", "failed"} => am.in_flight = 0
    /\ am.raised => am.printed = <<>> /\ am.pc \notin {"print", "done"}
    /\ am.pc = "done" =>
          /\ am.trace = <<"open", "execute", "all", "commit", "close">>
                            \o [k \in 1..Len(am.orders) |-> "print"]
          /\ Len(am.printed) = Cardinality(committed.orders)

\* C9 witness: two rows were printed after the session was closed.
C9_Witness ==
    /\ am.pc = "done"
    /\ Len(am.printed) = 2
    /\ am.session = "closed"

-----------------------------------------------------------------------------
(* SpecBot: the bot's handler user_start, one invocation per inbound "start" *)
(* message, each with its own session; invocations interleave at their       *)
(* awaits.  The database runs the sessions READ COMMITTED.                   *)

Invocations == 1..MaxInvocations
SenderIds == 1..MaxSenders

\* What a sender's account may show: the handle and the language are optional.
Profiles ==
    {[full_name |-> "John Doe", username |-> Some("johnny")],
     [full_name |-> "Jane Doe", username |-> Absent]}

\* message.from_user
FromUsers ==
    {[id |-> id, full_name |-> p.full_name, username |-> p.username,
      language_code |-> l] :
        id \in SenderIds, p \in Profiles, l \in {Absent, Some("en")}}

InvocationIdle ==
    [pc |-> "idle", from_user |-> Absent, user |-> Absent, identity |-> Absent,
     pending |-> Absent, began |-> 0, first |-> "none", reads |-> 0, inserts |-> 0,
     commits |-> 0, reply |-> Absent, after |-> {}]

InitBot ==
    /\ committed = EmptyDb
    /\ tx = EmptyDb
    /\ lastOp = "none"
    /\ result = EmptyBag
    /\ drv = DrvIdle
    /\ inv = [i \in Invocations |-> InvocationIdle]
    /\ am = AmIdle
    /\ now = 0

\* SELECT ... FROM users WHERE telegram_id = ...: the rows the database holds.
SelectUser(db, telegram_id) ==
    {Some(u) : u \in {x \in db.users : x.telegram_id = telegram_id}}

\* As SessionGet, with the identity map never consulted.
SessionGet_always_selects(identity, db, telegram_id) ==
    LET found == SelectUser(db, telegram_id)
    IN  {[user |-> u, read |-> TRUE] : u \in IF found = {} THEN {Absent} ELSE found}

\* session.get(User, id): an object the session holds unexpired is returned
\* without a query; otherwise the row is selected.
SessionGet(identity, db, telegram_id) ==
    IF identity # Absent
    THEN {[user |-> identity, read |-> FALSE]}
    ELSE LET found == SelectUser(db, telegram_id)
         IN  {[user |-> u, read |-> TRUE] :
                 u \in IF found = {} THEN {Absent} ELSE found}

\* create_user of the bot's database functions: one INSERT INTO users in the
\* session's transaction; created_at is filled by the server default.
bot_create_user(db, telegram_id, full_name, username, language_code, began) ==
    LET row == NewUser(telegram_id, full_name, username, language_code, began, Absent)
    IN  [ok |-> UserInsertOk(db, row), row |-> row]

\* str() of a value that may be None.
Str(o) == IF o = Absent THEN "None" ELSE Get(o)

\* The text of the reply, in its pieces.
ReplyText(user) ==
    <<"Hello, user. \nYour info is here: \n\n",
      user.full_name, " (@", Str(user.username), ").\nLanguage: ",
      Str(user.language_code), ".\nCreated at: ", user.created_at, ".">>

Terminated(i) == inv[i].pc \in {"done", "failed"}

\* A "start" message arrives and the dispatcher calls user_start with a new
\* session.  Invocations are numbered in the order of arrival.
Receive(i) ==
    /\ inv[i].pc = "idle"
    /\ \A j \in Invocations : j < i => inv[j].pc # "idle"
    /\ \E from_user \in FromUsers :
          inv' = [inv EXCEPT ![i] =
                     [@ EXCEPT !.pc = "get_1", !.from_user = Some(from_user),
                               !.after = {j \in Invocations : Terminated(j)}]]
    /\ UNCHANGED <<committed, tx, lastOp, result, drv, am, now>>

\* user = await session.get(User, message.from_user.id); if not user
Get1(i) ==
    /\ inv[i].pc = "get_1"
    /\ \E g \in SessionGet(inv[i].identity, committed, Get(inv[i].from_user).id) :
          inv' = [inv EXCEPT ![i] =
                     [@ EXCEPT !.pc = IF g.user = Absent THEN "create_user" ELSE "get_2",
                               !.user = g.user, !.identity = g.user,
                               !.first = IF g.user = Absent THEN "absent" ELSE "found",
                               !.reads = @ + (IF g.read THEN 1 ELSE 0),
                               !.began = now + 1]]
    /\ now' = now + 1
    /\ UNCHANGED <<committed, tx, lastOp, result, drv, am>>

\* No other session holds an uncommitted row with this key: the INSERT of a
\* key another transaction has inserted waits for that transaction to end.
KeyUnlocked(i, telegram_id) ==
    \A j \in Invocations \ {i} :
        IF inv[j].pending = Absent
        THEN TRUE
        ELSE Get(inv[j].pending).telegram_id # telegram_id

\* await create_user(session, ...)
CreateUser(i) ==
    /\ inv[i].pc = "create_user"
    /\ LET m == Get(inv[i].from_user)
           r == bot_create_user(committed, m.id, m.full_name, m.username,
                                m.language_code, inv[i].began)
       IN  /\ KeyUnlocked(i, m.id)
           /\ inv' = [inv EXCEPT ![i] =
                         [@ EXCEPT !.pc = IF r.ok THEN "commit" ELSE "failed",
                                   !.pending = IF r.ok THEN Some(r.row) ELSE Absent,
                                   !.inserts = @ + 1]]
    /\ UNCHANGED <<committed, tx, lastOp, result, drv, am, now>>

\* await session.commit(): the row becomes visible to the other sessions and
\* the session's objects expire.
Commit(i) ==
    /\ inv[i].pc = "commit"
    /\ committed' = [committed EXCEPT !.users = @ \cup {Get(inv[i].pending)}]
    /\ inv' = [inv EXCEPT ![i] =
                  [@ EXCEPT !.pc = "get_2", !.pending = Absent, !.identity = Absent,
                            !.commits = @ + 1]]
    /\ UNCHANGED <<tx, lastOp, result, drv, am, now>>

\* user = await session.get(User, message.from_user.id), then the f-string
\* reads the user's attributes, which fails on None.
Get2(i) ==
    /\ inv[i].pc = "get_2"
    /\ \E g \in SessionGet(inv[i].identity, committed, Get(inv[i].from_user).id) :
          inv' = [inv EXCEPT ![i] =
                     [@ EXCEPT !.pc = IF g.user = Absent THEN "failed" ELSE "reply",
                               !.user = g.user, !.identity = g.user,
                               !.reads = @ + (IF g.read THEN 1 ELSE 0)]]
    /\ UNCHANGED <<committed, tx, lastOp, result, drv, am, now>>

\* await message.reply(...)
Reply(i) ==
    /\ inv[i].pc = "reply"
    /\ inv' = [inv EXCEPT ![i] =
                  [@ EXCEPT !.pc = "done",
                            !.reply = Some(ReplyText(Get(inv[i].user)))]]
    /\ UNCHANGED <<committed, tx, lastOp, result, drv, am, now>>

NextBot ==
    \E i \in Invocations :
        \/ Receive(i)
        \/ Get1(i)
        \/ CreateUser(i)
        \/ Commit(i)
        \/ Get2(i)
        \/ Reply(i)

SpecBot == InitBot /\ [][NextBot]_vars

SenderOf(i) == Get(inv[i].from_user).id
UserRows(telegram_id) == {u \in committed.users : u.telegram_id = telegram_id}
Known(telegram_id) == UserRows(telegram_id) # {}

\* Invocation i overlapped no other invocation for the same sender.
Sequential(i) ==
    \A k \in Invocations \ {i} :
        (inv[k].pc # "idle" /\ SenderOf(k) = SenderOf(i)) =>
            k \in inv[i].after \/ i \in inv[k].after

\* C1: when user_start has run twice in sequence for one sender there is
\* exactly one users row for that sender, the second run did no insert and
\* no commit, and both replies carry the same full name, handle, language
\* code and creation timestamp.
C1_Idempotent ==
    \A i, j \in Invocations :
        (/\ Terminated(i) /\ Terminated(j)
         /\ i \in inv[j].after
         /\ Sequential(i) /\ Sequential(j)
         /\ SenderOf(i) = SenderOf(j)) =>
            /\ Cardinality(UserRows(SenderOf(i))) = 1
            /\ inv[j].inserts = 0 /\ inv[j].commits = 0
            /\ inv[i].reply # Absent /\ inv[j].reply # Absent
            /\ inv[i].reply = inv[j].reply

OneCreation(s) ==
    LET mine == {i \in Invocations : inv[i].pc # "idle" /\ SenderOf(i) = s}
        created == {i \in mine : inv[i].commits = 1}
    IN  /\ Cardinality(UserRows(s)) <= 1
        /\ Cardinality(created) <= 1
        /\ Known(s) = (created # {})
        /\ (mine # {} /\ \A i \in mine : Terminated(i)) => Cardinality(created) = 1

\* C3: for every interleaving of the invocations for one sender exactly one
\* create-then-commit succeeds, the users table never holds two rows for the
\* sender, and a known sender never becomes unknown again.
C3_OnceKnown ==
    /\ [](\A s \in SenderIds : OneCreation(s))
    /\ [][\A s \in SenderIds : Known(s) => Known(s)']_vars

=============================================================================
